---- MODULE Spec2Model ----
(***************************************************************************)
(* SputnikDAO (src/sputnikdao/src/lib.rs): council-governed proposals,      *)
(* votes, tiered vote policy, delay/grace window and finalization.          *)
(*                                                                          *)
(* A contract call runs to completion; a panic (assert!, expect,            *)
(* env::panic, an out-of-bounds index) aborts the call and none of its      *)
(* writes or transfers take effect.  Every call operator below returns a    *)
(* record [self, err, transfers, bond_returned, kind_applied]: err = ""     *)
(* for a call that returned, the panic message otherwise (and then self is  *)
(* the state the call started from).                                        *)
(***************************************************************************)
EXTENDS Integers, Sequences, FiniteSets, TLC

\* ------------------------------------------------------------------ bounds
MaxProposals == 2       \* proposals pushed in one behaviour
MaxTime == 3            \* last block timestamp explored
InitVotePeriod == 2     \* vote_period given to new()
InitGracePeriod == 1    \* grace_period given to new()
AltVotePeriod == 1      \* vote_period a ChangeVotePeriod proposal asks for
MaxTiers == 2           \* items of a policy handed to vote_requirement
MaxCouncil == 3         \* council size handed to num_votes
MaxRatio == 2           \* l and r of a Ratio(l, r), k of a Number(k)

\* ------------------------------------------------------- program constants
MAX_DESCRIPTION_LENGTH == 280
InitBond == 10

Accounts == {"acc0", "acc1", "acc2"}
FoundingCouncil == {"acc0", "acc1"}
Proposers == {"acc2"}
Deposits == {InitBond - 1, InitBond}
DescriptionLengths == {MAX_DESCRIPTION_LENGTH - 1, MAX_DESCRIPTION_LENGTH}

\* ------------------------------------------------------------ NumOrRatio
Number(n) == [tag |-> "Number", a |-> n, b |-> 0]
Ratio(l, r) == [tag |-> "Ratio", a |-> l, b |-> r]

PolicyItem(max_amount, votes) == [max_amount |-> max_amount, votes |-> votes]

Min(x, y) == IF x < y THEN x ELSE y

\* The value standing for a call that panicked instead of returning votes.
PanicVotes == -1

\* num_council * l / r panics for r = 0 (integer division by zero).  The
\* operands of every specification below keep num_council * l + 1 far below
\* 2^64, the width of u64.
num_votes(item, num_council) ==
    IF item.votes.tag = "Number"
    THEN item.votes.a
    ELSE IF item.votes.b = 0 THEN PanicVotes
    ELSE Min((num_council * item.votes.a) \div item.votes.b + 1, num_council)

\* Option<Balance>
None == [some |-> FALSE, v |-> 0]
Some(x) == [some |-> TRUE, v |-> x]

\* Mutant: an item whose max_amount equals the amount matches too.
RECURSIVE FirstTier_inclusive(_, _, _)
FirstTier_inclusive(policy, amount, i) ==
    IF i > Len(policy) THEN 0
    ELSE IF policy[i].max_amount >= amount THEN i
    ELSE FirstTier_inclusive(policy, amount, i + 1)

\* The for loop of vote_requirement from item i on; 0 when no item matches
\* (the caller then falls through to the last item).
RECURSIVE FirstTier(_, _, _)
FirstTier(policy, amount, i) ==
    IF i > Len(policy) THEN 0
    ELSE IF policy[i].max_amount > amount THEN i
    ELSE FirstTier(policy, amount, i + 1)

\* Defined for a non-empty policy only: policy[policy.len() - 1] panics on
\* an empty one (see vote_status).
vote_requirement(policy, num_council, amount) ==
    IF amount.some /\ FirstTier(policy, amount.v, 1) # 0
    THEN num_votes(policy[FirstTier(policy, amount.v, 1)], num_council)
    ELSE num_votes(policy[Len(policy)], num_council)

\* -------------------------------------------------------- ProposalStatus
\* Mutant: Fail is not counted as finalized.
is_finalized_without_fail(status) == status = "Success" \/ status = "Reject"

is_finalized(status) == status # "Vote" /\ status # "Delay"

\* ---------------------------------------------------------- ProposalKind
Kind(type, amount, vp, bnd, pol, purp) ==
    [type |-> type, amount |-> amount, vote_period |-> vp, bond |-> bnd,
     policy |-> pol, purpose |-> purp]
NewCouncil == Kind("NewCouncil", 0, 0, 0, <<>>, "")
RemoveCouncil == Kind("RemoveCouncil", 0, 0, 0, <<>>, "")
Payout(amount) == Kind("Payout", amount, 0, 0, <<>>, "")
ChangeVotePeriod(vp) == Kind("ChangeVotePeriod", 0, vp, 0, <<>>, "")
ChangeBond(bnd) == Kind("ChangeBond", 0, 0, bnd, <<>>, "")
ChangePolicy(pol) == Kind("ChangePolicy", 0, 0, 0, pol, "")
ChangePurpose(purp) == Kind("ChangePurpose", 0, 0, 0, <<>>, purp)

get_amount(proposal) ==
    IF proposal.kind.type = "Payout" THEN Some(proposal.kind.amount) ELSE None

\* Mutant: Success needs more Yes votes than the last tier asks for.
vote_status_strict(proposal, policy, num_council, block_timestamp) ==
    IF Len(policy) = 0 THEN "Panic"
    ELSE LET votes_required == vote_requirement(policy, num_council, get_amount(proposal))
             max_votes == num_votes(policy[Len(policy)], num_council)
         IN IF votes_required = PanicVotes \/ max_votes = PanicVotes THEN "Panic"
            ELSE IF proposal.vote_yes > max_votes THEN "Success"
            ELSE IF proposal.vote_yes >= votes_required /\ proposal.vote_no = 0
                 THEN (IF block_timestamp > proposal.vote_period_end
                       THEN "Success" ELSE "Delay")
            ELSE IF proposal.vote_no >= max_votes THEN "Reject"
            ELSE IF \/ block_timestamp > proposal.vote_period_end
                    \/ proposal.vote_yes + proposal.vote_no = num_council
                 THEN "Fail"
            ELSE "Vote"

\* Mutant: a proposal fails on expiry only, not when every member has voted.
vote_status_expiry_only(proposal, policy, num_council, block_timestamp) ==
    IF Len(policy) = 0 THEN "Panic"
    ELSE LET votes_required == vote_requirement(policy, num_council, get_amount(proposal))
             max_votes == num_votes(policy[Len(policy)], num_council)
         IN IF votes_required = PanicVotes \/ max_votes = PanicVotes THEN "Panic"
            ELSE IF proposal.vote_yes >= max_votes THEN "Success"
            ELSE IF proposal.vote_yes >= votes_required /\ proposal.vote_no = 0
                 THEN (IF block_timestamp > proposal.vote_period_end
                       THEN "Success" ELSE "Delay")
            ELSE IF proposal.vote_no >= max_votes THEN "Reject"
            ELSE IF block_timestamp > proposal.vote_period_end THEN "Fail"
            ELSE "Vote"

\* Mutant: the Delay window ends at vote_period_end instead of after it.
vote_status_window_closed_early(proposal, policy, num_council, block_timestamp) ==
    IF Len(policy) = 0 THEN "Panic"
    ELSE LET votes_required == vote_requirement(policy, num_council, get_amount(proposal))
             max_votes == num_votes(policy[Len(policy)], num_council)
         IN IF votes_required = PanicVotes \/ max_votes = PanicVotes THEN "Panic"
            ELSE IF proposal.vote_yes >= max_votes THEN "Success"
            ELSE IF proposal.vote_yes >= votes_required /\ proposal.vote_no = 0
                 THEN (IF block_timestamp >= proposal.vote_period_end
                       THEN "Success" ELSE "Delay")
            ELSE IF proposal.vote_no >= max_votes THEN "Reject"
            ELSE IF \/ block_timestamp > proposal.vote_period_end
                    \/ proposal.vote_yes + proposal.vote_no = num_council
                 THEN "Fail"
            ELSE "Vote"

\* "Panic" stands for the index-out-of-bounds panic of
\* policy[policy.len() - 1] on an empty policy and for the division by zero
\* of num_votes on a Ratio(l, 0) tier.
vote_status(proposal, policy, num_council, block_timestamp) ==
    IF Len(policy) = 0 THEN "Panic"
    ELSE LET votes_required == vote_requirement(policy, num_council, get_amount(proposal))
             max_votes == num_votes(policy[Len(policy)], num_council)
         IN IF votes_required = PanicVotes \/ max_votes = PanicVotes THEN "Panic"
            ELSE IF proposal.vote_yes >= max_votes THEN "Success"
            ELSE IF proposal.vote_yes >= votes_required /\ proposal.vote_no = 0
                 THEN (IF block_timestamp > proposal.vote_period_end
                       THEN "Success" ELSE "Delay")
            ELSE IF proposal.vote_no >= max_votes THEN "Reject"
            ELSE IF \/ block_timestamp > proposal.vote_period_end
                    \/ proposal.vote_yes + proposal.vote_no = num_council
                 THEN "Fail"
            ELSE "Vote"

\* ------------------------------------------------------------------ state
VARIABLES purpose, bond, vote_period, grace_period, policy, council, proposals,
          now, effects, last, scope, calc
\* now     : env::block_timestamp()
\* effects : per proposal, how many times its bond was sent back, how many
\*           times its kind effect was applied, the transfers emitted for it
\*           (history of finalize), the council and policy under which a
\*           vote moved it to Delay (history of vote), and the bond its
\*           deposit was compared with (history of add_proposal)
\* last    : the last call that returned: operation and proposal id
\* scope   : what the callers of this run submit: for the first, second, ...
\*           proposal the kinds it is drawn from; fixed from the first state on
\* calc    : one application of a pure function: its inputs and its result

dao == <<purpose, bond, vote_period, grace_period, policy, council, proposals>>
vars == <<purpose, bond, vote_period, grace_period, policy, council, proposals,
          now, effects, last, scope, calc>>

Self == [purpose |-> purpose, bond |-> bond, vote_period |-> vote_period,
         grace_period |-> grace_period, policy |-> policy, council |-> council,
         proposals |-> proposals]

Env(caller, deposit) ==
    [predecessor_account_id |-> caller, block_timestamp |-> now,
     attached_deposit |-> deposit]

EmptyVotes == [a \in {} |-> "Yes"]

Returned(self, transfers, bond_returned, kind_applied) ==
    [self |-> self, err |-> "", transfers |-> transfers,
     bond_returned |-> bond_returned, kind_applied |-> kind_applied]
Panicked(self, msg) ==
    [self |-> self, err |-> msg, transfers |-> <<>>,
     bond_returned |-> FALSE, kind_applied |-> FALSE]

Transfer(to, amount) == [to |-> to, amount |-> amount]

\* ------------------------------------------------------------------- new
DefaultPolicy == <<PolicyItem(0, Ratio(1, 2))>>

ConstructedWith(founders) ==
    /\ purpose = "test"
    /\ bond = InitBond
    /\ vote_period = InitVotePeriod
    /\ grace_period = InitGracePeriod
    /\ policy = DefaultPolicy
    /\ council = founders
    /\ proposals = <<>>
    /\ now = 0
    /\ effects = <<>>
    /\ last = [op |-> "new", id |-> 0]

Constructed == ConstructedWith(FoundingCouncil)

\* ---------------------------------------------------------- add_proposal
\* Mutant: the loop starts one item late (for i in 2..policy.len()).
policy_sorted_from_third(pol) ==
    \A i \in 3..Len(pol) : pol[i].max_amount > pol[i - 1].max_amount

\* for i in 1..policy.len() { assert!(policy[i] > policy[i - 1]) }
policy_sorted(pol) ==
    \A i \in 2..Len(pol) : pol[i].max_amount > pol[i - 1].max_amount

add_proposal(self, env, input) ==
    IF ~(env.attached_deposit >= self.bond) THEN Panicked(self, "Not enough deposit")
    ELSE IF ~(input.description < MAX_DESCRIPTION_LENGTH)
    THEN Panicked(self, "Description length is too long")
    ELSE IF input.kind.type = "ChangePolicy" /\ ~policy_sorted(input.kind.policy)
    THEN Panicked(self, "Policy must be sorted")
    ELSE LET p == [status |-> "Vote",
                   proposer |-> env.predecessor_account_id,
                   target |-> input.target,
                   description |-> input.description,
                   kind |-> input.kind,
                   vote_period_end |-> env.block_timestamp + self.vote_period,
                   vote_yes |-> 0,
                   vote_no |-> 0,
                   votes |-> EmptyVotes]
         IN Returned([self EXCEPT !.proposals = Append(@, p)], <<>>, FALSE, FALSE)

\* -------------------------------------------------------------- finalize
\* Mutant: the ChangeBond arm writes the voting period.
apply_kind_bond_to_period(self, proposal) ==
    CASE proposal.kind.type = "NewCouncil" ->
            [self EXCEPT !.council = @ \cup {proposal.target}]
      [] proposal.kind.type = "RemoveCouncil" ->
            [self EXCEPT !.council = @ \ {proposal.target}]
      [] proposal.kind.type = "Payout" -> self
      [] proposal.kind.type = "ChangeVotePeriod" ->
            [self EXCEPT !.vote_period = proposal.kind.vote_period]
      [] proposal.kind.type = "ChangeBond" ->
            [self EXCEPT !.vote_period = proposal.kind.bond]
      [] proposal.kind.type = "ChangePolicy" ->
            [self EXCEPT !.policy = proposal.kind.policy]
      [] proposal.kind.type = "ChangePurpose" ->
            [self EXCEPT !.purpose = proposal.kind.purpose]

\* The inner match of the Success arm: the kind's effect on the contract.
apply_kind(self, proposal) ==
    CASE proposal.kind.type = "NewCouncil" ->
            [self EXCEPT !.council = @ \cup {proposal.target}]
      [] proposal.kind.type = "RemoveCouncil" ->
            [self EXCEPT !.council = @ \ {proposal.target}]
      [] proposal.kind.type = "Payout" -> self
      [] proposal.kind.type = "ChangeVotePeriod" ->
            [self EXCEPT !.vote_period = proposal.kind.vote_period]
      [] proposal.kind.type = "ChangeBond" ->
            [self EXCEPT !.bond = proposal.kind.bond]
      [] proposal.kind.type = "ChangePolicy" ->
            [self EXCEPT !.policy = proposal.kind.policy]
      [] proposal.kind.type = "ChangePurpose" ->
            [self EXCEPT !.purpose = proposal.kind.purpose]

kind_transfers(proposal) ==
    IF proposal.kind.type = "Payout"
    THEN <<Transfer(proposal.target, proposal.kind.amount)>>
    ELSE <<>>

\* Mutant: a rejected proposal gets its bond back, as a failed one does.
finalize_refunds_reject(self, env, id) ==
    IF ~(id < Len(self.proposals)) THEN Panicked(self, "No proposal with such id")
    ELSE LET proposal == self.proposals[id + 1] IN
    IF is_finalized(proposal.status) THEN Panicked(self, "Proposal already finalized")
    ELSE LET status == vote_status(proposal, self.policy, Cardinality(self.council),
                                   env.block_timestamp)
             stored == [self EXCEPT !.proposals[id + 1].status = status]
         IN CASE status = "Panic" -> Panicked(self, "vote_status panicked")
              [] status = "Success" ->
                    Returned(apply_kind(stored, proposal),
                             <<Transfer(proposal.proposer, self.bond)>>
                                 \o kind_transfers(proposal),
                             TRUE, TRUE)
              [] status \in {"Reject", "Fail"} ->
                    Returned(stored, <<Transfer(proposal.proposer, self.bond)>>,
                             TRUE, FALSE)
              [] status \in {"Vote", "Delay"} ->
                    Panicked(self, "voting period has not expired and no majority vote yet")

\* Mutant: a proposal that is still open is written back and the call returns.
finalize_stores_open(self, env, id) ==
    IF ~(id < Len(self.proposals)) THEN Panicked(self, "No proposal with such id")
    ELSE LET proposal == self.proposals[id + 1] IN
    IF is_finalized(proposal.status) THEN Panicked(self, "Proposal already finalized")
    ELSE LET status == vote_status(proposal, self.policy, Cardinality(self.council),
                                   env.block_timestamp)
             stored == [self EXCEPT !.proposals[id + 1].status = status]
         IN CASE status = "Panic" -> Panicked(self, "vote_status panicked")
              [] status = "Success" ->
                    Returned(apply_kind(stored, proposal),
                             <<Transfer(proposal.proposer, self.bond)>>
                                 \o kind_transfers(proposal),
                             TRUE, TRUE)
              [] status = "Reject" -> Returned(stored, <<>>, FALSE, FALSE)
              [] status = "Fail" ->
                    Returned(stored, <<Transfer(proposal.proposer, self.bond)>>,
                             TRUE, FALSE)
              [] status \in {"Vote", "Delay"} -> Returned(stored, <<>>, FALSE, FALSE)

\* Proposal ids count from 0; proposals[id + 1] is Vector::get(id).
finalize(self, env, id) ==
    IF ~(id < Len(self.proposals)) THEN Panicked(self, "No proposal with such id")
    ELSE LET proposal == self.proposals[id + 1] IN
    IF is_finalized(proposal.status) THEN Panicked(self, "Proposal already finalized")
    ELSE LET status == vote_status(proposal, self.policy, Cardinality(self.council),
                                   env.block_timestamp)
             stored == [self EXCEPT !.proposals[id + 1].status = status]
         IN CASE status = "Panic" -> Panicked(self, "vote_status panicked")
              [] status = "Success" ->
                    Returned(apply_kind(stored, proposal),
                             <<Transfer(proposal.proposer, self.bond)>>
                                 \o kind_transfers(proposal),
                             TRUE, TRUE)
              [] status = "Reject" -> Returned(stored, <<>>, FALSE, FALSE)
              [] status = "Fail" ->
                    Returned(stored, <<Transfer(proposal.proposer, self.bond)>>,
                             TRUE, FALSE)
              [] status \in {"Vote", "Delay"} ->
                    Panicked(self, "voting period has not expired and no majority vote yet")

\* ------------------------------------------------------------------ vote
\* Mutant: the status assertion is missing.
status_unchecked(proposal) == TRUE

\* Mutant: every proposal that is not finalized accepts votes.
status_not_finalized(proposal) == ~is_finalized(proposal.status)

\* assert_eq!(proposal.status, ProposalStatus::Vote, ...)
status_is_vote(proposal) == proposal.status = "Vote"

\* Mutant: the "Already voted" assertion is missing.
never_voted(proposal, account) == FALSE

\* proposal.votes.contains_key(&env::predecessor_account_id())
already_voted(proposal, account) == account \in DOMAIN proposal.votes

\* Mutant: the window is extended by vote_period instead of grace_period.
vote_period_from_now(self, env) == env.block_timestamp + self.vote_period

\* env::block_timestamp() + self.grace_period
grace_end(self, env) == env.block_timestamp + self.grace_period

record_vote(proposal, account, v) ==
    [proposal EXCEPT
        !.vote_yes = IF v = "Yes" THEN @ + 1 ELSE @,
        !.vote_no = IF v = "No" THEN @ + 1 ELSE @,
        !.votes = [a \in DOMAIN @ \cup {account} |-> IF a = account THEN v ELSE @[a]]]

vote(self, env, id, v) ==
    IF env.predecessor_account_id \notin self.council
    THEN Panicked(self, "Only council can vote")
    ELSE IF ~(id < Len(self.proposals)) THEN Panicked(self, "No proposal with such id")
    ELSE LET proposal == self.proposals[id + 1] IN
    IF ~status_is_vote(proposal) THEN Panicked(self, "Proposal already finalized")
    ELSE IF proposal.vote_period_end < env.block_timestamp
    THEN finalize(self, env, id)
    ELSE IF already_voted(proposal, env.predecessor_account_id)
    THEN Panicked(self, "Already voted")
    ELSE LET voted == record_vote(proposal, env.predecessor_account_id, v)
             post_status == vote_status(voted, self.policy, Cardinality(self.council),
                                        env.block_timestamp)
             replaced ==
                 IF ~is_finalized(post_status)
                 THEN [voted EXCEPT
                          !.vote_period_end = grace_end(self, env),
                          !.status = post_status]
                 ELSE voted
             written == [self EXCEPT !.proposals[id + 1] = replaced]
         IN IF post_status = "Panic" THEN Panicked(self, "vote_status panicked")
            ELSE IF is_finalized(post_status)
            THEN LET r == finalize(written, env, id)
                 IN IF r.err # "" THEN Panicked(self, r.err) ELSE r
            ELSE Returned(written, <<>>, FALSE, FALSE)

\* ---------------------------------------------------------------- inputs
TestPolicy == <<PolicyItem(100, Number(1)), PolicyItem(1000000, Ratio(1, 1))>>
UnsortedPolicy == <<PolicyItem(100, Number(5)), PolicyItem(5, Number(3))>>
EmptyPolicy == <<>>

Kinds ==
    {NewCouncil, RemoveCouncil, Payout(10),
     ChangePolicy(TestPolicy), ChangePolicy(UnsortedPolicy),
     ChangePolicy(EmptyPolicy)}

Targets(kind) ==
    CASE kind.type = "NewCouncil" -> {"acc2"}
      [] kind.type = "RemoveCouncil" -> {"acc1"}
      [] OTHER -> {"acc1"}

InputsOf(kinds) ==
    {[target |-> t, description |-> d, kind |-> k] :
        t \in Accounts, d \in DescriptionLengths, k \in kinds}

ProposalInputs == InputsOf(Kinds)

\* No pure function is being applied while the contract runs.
Idle ==
    [fn |-> "none", policy |-> <<>>, num_council |-> 0, kind |-> NewCouncil,
     done |-> FALSE, result |-> 0]

Init ==
    /\ Constructed
    /\ scope = [i \in 1..MaxProposals |-> Kinds]
    /\ calc = Idle

\* ---------------------------------------------------------------- actions
\* A call that panics leaves every variable as it was; a call that returns
\* installs the contract state it computed, adds the transfers it emitted to
\* the history of the proposal they belong to and becomes the last call.
NoEffects ==
    [bond_returned |-> 0, kind_applied |-> 0, transfers |-> <<>>,
     delayed |-> FALSE, delay_council |-> {}, delay_policy |-> <<>>,
     bond_in_force |-> bond]

Count(effs, id, r) ==
    [effs EXCEPT
        ![id + 1].bond_returned = @ + (IF r.bond_returned THEN 1 ELSE 0),
        ![id + 1].kind_applied = @ + (IF r.kind_applied THEN 1 ELSE 0),
        ![id + 1].transfers = @ \o r.transfers,
        ![id + 1].delayed = @ \/ r.self.proposals[id + 1].status = "Delay",
        ![id + 1].delay_council =
            IF r.self.proposals[id + 1].status = "Delay" THEN council ELSE @,
        ![id + 1].delay_policy =
            IF r.self.proposals[id + 1].status = "Delay" THEN policy ELSE @]

Install(op, id, r, effs) ==
    IF r.err = ""
    THEN /\ purpose' = r.self.purpose
         /\ bond' = r.self.bond
         /\ vote_period' = r.self.vote_period
         /\ grace_period' = r.self.grace_period
         /\ policy' = r.self.policy
         /\ council' = r.self.council
         /\ proposals' = r.self.proposals
         /\ effects' = effs
         /\ last' = [op |-> op, id |-> id]
    ELSE UNCHANGED <<dao, effects, last>>

AddProposal ==
    /\ Len(proposals) < Len(scope)
    /\ \E caller \in Proposers, deposit \in Deposits,
          input \in InputsOf(scope[Len(proposals) + 1]) :
          /\ input.target \in Targets(input.kind)
          /\ Install("add_proposal", Len(proposals),
                     add_proposal(Self, Env(caller, deposit), input),
                     Append(effects, NoEffects))
    /\ UNCHANGED <<now, scope, calc>>

Vote ==
    /\ \E caller \in Accounts, id \in 0..(Len(proposals) - 1), v \in {"Yes", "No"} :
          LET r == vote(Self, Env(caller, 0), id, v)
          IN Install("vote", id, r, Count(effects, id, r))
    /\ UNCHANGED <<now, scope, calc>>

Finalize ==
    /\ \E caller \in Proposers, id \in 0..(Len(proposals) - 1) :
          LET r == finalize(Self, Env(caller, 0), id)
          IN Install("finalize", id, r, Count(effects, id, r))
    /\ UNCHANGED <<now, scope, calc>>

\* The block timestamp only grows between calls.
Tick ==
    /\ now < MaxTime
    /\ now' = now + 1
    /\ UNCHANGED <<dao, effects, last, scope, calc>>

Next == AddProposal \/ Vote \/ Finalize \/ Tick

Spec == Init /\ [][Next]_vars

\* ------------------------------------------------- the parameter changes
\* The same contract and the same calls, with the proposals that change the
\* bond, the voting period and the purpose, a policy whose first tier asks
\* for more votes than its last, and a policy whose tier divides by zero.
InvertedPolicy == <<PolicyItem(100, Ratio(1, 1)), PolicyItem(1000000, Number(1))>>
ZeroRatioPolicy == <<PolicyItem(0, Ratio(1, 0))>>

ParamKinds ==
    {RemoveCouncil, Payout(10), ChangePolicy(InvertedPolicy),
     ChangePolicy(ZeroRatioPolicy), ChangeBond(InitBond - 1),
     ChangeVotePeriod(AltVotePeriod), ChangePurpose("other")}

InitParams ==
    /\ Constructed
    /\ scope = [i \in 1..MaxProposals |-> ParamKinds]
    /\ calc = Idle

SpecParams == InitParams /\ [][Next]_vars

\* --------------------------------------------- three proposals in a row
\* The same contract and the same calls, with three proposals: one that
\* installs a tiered policy, one that can then wait in Delay and one that
\* shrinks the council.
DelayKinds == <<{ChangePolicy(TestPolicy)}, {Payout(10)}, {RemoveCouncil}>>

InitDelay ==
    /\ Constructed
    /\ scope = DelayKinds
    /\ calc = Idle

SpecDelay == InitDelay /\ [][Next]_vars

\* ------------------------------------------------- a council of one
\* The same contract, calls and proposal kinds as Spec, constructed with a
\* founding council of one member, the one a RemoveCouncil proposal targets.
SingleCouncil == {"acc1"}

InitSingle ==
    /\ ConstructedWith(SingleCouncil)
    /\ scope = [i \in 1..MaxProposals |-> Kinds]
    /\ calc = Idle

SpecSingle == InitSingle /\ [][Next]_vars

\* ------------------------------------------------ the policy functions
\* vote_requirement and num_votes applied once to inputs drawn from every
\* rule with small numbers, every policy of up to MaxTiers items (sorted or
\* not: the functions do not look at the order) and every small council.
Rules ==
    {Number(k) : k \in 0..MaxRatio}
        \cup {Ratio(l, r) : l \in 0..MaxRatio, r \in 0..MaxRatio}
Tiers == {PolicyItem(m, votes) : m \in {10, 100}, votes \in Rules}
Policies == UNION {[1..len -> Tiers] : len \in 1..MaxTiers}
CalcKinds == {NewCouncil, Payout(5), Payout(10), Payout(50), Payout(100)}

Input(fn, pol, n, k) ==
    [fn |-> fn, policy |-> pol, num_council |-> n, kind |-> k,
     done |-> FALSE, result |-> 0]

InitCalc ==
    /\ Constructed
    /\ scope = <<>>
    /\ \E n \in 0..MaxCouncil :
          \/ \E pol \in Policies, k \in CalcKinds :
                calc = Input("vote_requirement", pol, n, k)
          \/ \E votes \in Rules :
                calc = Input("num_votes", <<PolicyItem(0, votes)>>, n, NewCouncil)

ApplyVoteRequirement ==
    /\ calc.fn = "vote_requirement" /\ ~calc.done
    /\ calc' = [calc EXCEPT
                   !.done = TRUE,
                   !.result = vote_requirement(calc.policy, calc.num_council,
                                               get_amount([kind |-> calc.kind]))]
    /\ UNCHANGED <<dao, now, effects, last, scope>>

ApplyNumVotes ==
    /\ calc.fn = "num_votes" /\ ~calc.done
    /\ calc' = [calc EXCEPT
                   !.done = TRUE,
                   !.result = num_votes(calc.policy[1], calc.num_council)]
    /\ UNCHANGED <<dao, now, effects, last, scope>>

NextCalc == ApplyVoteRequirement \/ ApplyNumVotes

SpecCalc == InitCalc /\ [][NextCalc]_vars

\* ================================================================ claims
Ids == 0..(Len(proposals) - 1)
Terminal == {"Success", "Reject", "Fail"}
Votes == {"Yes", "No"}
PropAt(id) == proposals[id + 1]
SameTally(p, q) ==
    /\ p.status = q.status
    /\ p.vote_yes = q.vote_yes
    /\ p.vote_no = q.vote_no
    /\ p.votes = q.votes
    /\ p.vote_period_end = q.vote_period_end

\* C1: a finalize call on a proposal whose status is Success, Reject or Fail
\* panics with "Proposal already finalized" and changes nothing, and no
\* proposal ever has its bond sent back or its kind effect applied more than
\* once.
C1_FinalizeOnce ==
    \A id \in Ids :
        /\ effects[id + 1].bond_returned <= 1
        /\ effects[id + 1].kind_applied <= 1
        /\ PropAt(id).status \in Terminal =>
              \A caller \in Accounts :
                  LET r == finalize(Self, Env(caller, 0), id)
                  IN /\ r.err = "Proposal already finalized"
                     /\ r.self = Self
                     /\ r.transfers = <<>>

\* A proposal that succeeded, whose bond went back once and whose effect was
\* applied once, on which a further finalize call is refused.
C1_Witness ==
    \E id \in Ids :
        /\ PropAt(id).status = "Success"
        /\ effects[id + 1].bond_returned = 1
        /\ effects[id + 1].kind_applied = 1
        /\ last.op = "finalize"
        /\ finalize(Self, Env("acc2", 0), id).err = "Proposal already finalized"

\* C2: once a proposal is Success, Reject or Fail, every vote call on it by a
\* council member panics with "Proposal already finalized", and no later
\* step changes its status, vote_yes, vote_no, votes or vote_period_end.
C2_TerminalRefusesVotes ==
    \A id \in Ids :
        PropAt(id).status \in Terminal =>
            \A caller \in council, v \in Votes :
                LET r == vote(Self, Env(caller, 0), id, v)
                IN r.err = "Proposal already finalized" /\ r.self = Self

C2_TerminalFrozenStep ==
    \A id \in Ids :
        PropAt(id).status \in Terminal =>
            /\ id < Len(proposals')
            /\ SameTally(proposals'[id + 1], PropAt(id))

C2_TerminalIsFinal == [](C2_TerminalRefusesVotes) /\ [][C2_TerminalFrozenStep]_vars

\* Proposal 0 is terminal, a council member's vote on it is refused, and the
\* last call was a vote recorded on proposal 1 afterwards.
C2_Witness ==
    /\ Len(proposals) = 2
    /\ PropAt(0).status \in Terminal
    /\ last = [op |-> "vote", id |-> 1]
    /\ PropAt(1).vote_yes + PropAt(1).vote_no > 0
    /\ \E caller \in council :
          vote(Self, Env(caller, 0), 0, "No").err = "Proposal already finalized"

\* C3: in every reachable state every proposal satisfies
\* vote_yes + vote_no <= the current council size.
C3_TallyWithinCouncil ==
    \A id \in Ids :
        PropAt(id).vote_yes + PropAt(id).vote_no <= Cardinality(council)

\* C4: for every proposal vote_yes + vote_no is the number of entries of its
\* voter map (a map: one entry per account), and a second vote call by a
\* council member who is in the map, on a proposal in status Vote within its
\* window, panics with "Already voted" and changes nothing.
C4_OneVotePerAccount ==
    \A id \in Ids :
        /\ PropAt(id).vote_yes + PropAt(id).vote_no = Cardinality(DOMAIN PropAt(id).votes)
        /\ PropAt(id).vote_yes =
              Cardinality({a \in DOMAIN PropAt(id).votes : PropAt(id).votes[a] = "Yes"})
        /\ \A caller \in council, v \in Votes :
              (/\ PropAt(id).status = "Vote"
               /\ now <= PropAt(id).vote_period_end
               /\ caller \in DOMAIN PropAt(id).votes) =>
                  LET r == vote(Self, Env(caller, 0), id, v)
                  IN r.err = "Already voted" /\ r.self = Self

\* An open proposal inside its window on which a council member has voted and
\* whose second vote is refused.
C4_Witness ==
    \E id \in Ids, caller \in council :
        /\ PropAt(id).status = "Vote"
        /\ now <= PropAt(id).vote_period_end
        /\ caller \in DOMAIN PropAt(id).votes
        /\ last = [op |-> "vote", id |-> id]
        /\ vote(Self, Env(caller, 0), id, "No").err = "Already voted"

\* C5: in every reachable state the installed policy is non-empty, so the
\* required-votes lookup made by vote and finalize (vote_status) yields a
\* value for every proposal.
C5_PolicyNonEmpty ==
    /\ Len(policy) > 0
    /\ \A id \in Ids :
          vote_status(PropAt(id), policy, Cardinality(council), now) # "Panic"

\* C6: an add_proposal call with attached deposit < bond, description length
\* >= 280 or a ChangePolicy payload with a consecutive pair of tiers whose
\* max_amount does not strictly increase panics and leaves the contract
\* unchanged; so no stored proposal has such a description or payload.
Violates(deposit, input) ==
    \/ deposit < bond
    \/ input.description >= MAX_DESCRIPTION_LENGTH
    \/ /\ input.kind.type = "ChangePolicy"
       /\ \E i \in 1..(Len(input.kind.policy) - 1) :
             input.kind.policy[i + 1].max_amount <= input.kind.policy[i].max_amount

C6_BadProposalRefused ==
    /\ \A caller \in Proposers, deposit \in Deposits, input \in ProposalInputs :
          Violates(deposit, input) =>
              LET r == add_proposal(Self, Env(caller, deposit), input)
              IN r.err # "" /\ r.self = Self
    /\ \A id \in Ids :
          /\ PropAt(id).description < MAX_DESCRIPTION_LENGTH
          /\ ~Violates(bond, [description |-> PropAt(id).description,
                              kind |-> PropAt(id).kind])

\* A contract holding a proposal on which each of the three violations is
\* refused with its own message.
C6_Witness ==
    /\ Len(proposals) = 1
    /\ last.op = "add_proposal"
    /\ \E input \in ProposalInputs :
          /\ input.kind = ChangePolicy(UnsortedPolicy)
          /\ input.description < MAX_DESCRIPTION_LENGTH
          /\ add_proposal(Self, Env("acc2", bond), input).err = "Policy must be sorted"
    /\ \E input \in ProposalInputs :
          /\ input.description = MAX_DESCRIPTION_LENGTH
          /\ add_proposal(Self, Env("acc2", bond), input).err
                = "Description length is too long"
    /\ \E input \in ProposalInputs :
          add_proposal(Self, Env("acc2", bond - 1), input).err = "Not enough deposit"

\* The preconditions under which vote records the caller's vote.
Records(id, caller) ==
    /\ caller \in council
    /\ PropAt(id).status = "Vote"
    /\ now <= PropAt(id).vote_period_end
    /\ caller \notin DOMAIN PropAt(id).votes
    /\ Len(policy) > 0

MaxVotes == num_votes(policy[Len(policy)], Cardinality(council))
Required(id) == vote_requirement(policy, Cardinality(council), get_amount(PropAt(id)))

KindEffectIn(id, r) ==
    LET p == PropAt(id)
    IN /\ p.kind.type = "NewCouncil" => p.target \in r.self.council
       /\ p.kind.type = "RemoveCouncil" => p.target \notin r.self.council
       /\ p.kind.type = "Payout" =>
             \E i \in DOMAIN r.transfers : r.transfers[i] = Transfer(p.target, p.kind.amount)
       /\ p.kind.type = "ChangePolicy" => r.self.policy = p.kind.policy
       /\ p.kind.type = "ChangeVotePeriod" => r.self.vote_period = p.kind.vote_period
       /\ p.kind.type = "ChangeBond" => r.self.bond = p.kind.bond
       /\ p.kind.type = "ChangePurpose" => r.self.purpose = p.kind.purpose

\* C7: a recorded Yes vote that brings vote_yes to at least the last tier's
\* num_votes(council size) makes the proposal Success in that vote call,
\* whatever its No votes and its remaining window; the call sends the bond to
\* the proposer and applies the kind effect.
C7_YesMajoritySucceeds ==
    \A id \in Ids, caller \in Accounts :
        (Records(id, caller) /\ PropAt(id).vote_yes + 1 >= MaxVotes) =>
            LET r == vote(Self, Env(caller, 0), id, "Yes")
            IN /\ r.err = ""
               /\ r.self.proposals[id + 1].status = "Success"
               /\ r.self.proposals[id + 1].vote_yes = PropAt(id).vote_yes + 1
               /\ r.transfers[1] = Transfer(PropAt(id).proposer, bond)
               /\ KindEffectIn(id, r)

\* A NewCouncil proposal that a vote inside its window made Success, with a
\* No vote recorded: its target sits in the council and its bond went back.
C7_Witness ==
    \E id \in Ids :
        /\ last = [op |-> "vote", id |-> id]
        /\ PropAt(id).status = "Success"
        /\ PropAt(id).kind.type = "NewCouncil"
        /\ PropAt(id).vote_no > 0
        /\ now <= PropAt(id).vote_period_end
        /\ PropAt(id).target \in council
        /\ effects[id + 1].transfers = <<Transfer(PropAt(id).proposer, bond)>>

\* C8: a recorded vote after which vote_yes + vote_no equals the council size
\* while vote_yes and vote_no are both below the last tier's threshold and it
\* is not the case that vote_yes >= the tier requirement with vote_no = 0
\* makes the proposal Fail in that vote call; the call sends the bond to the
\* proposer and changes nothing else of the contract.
C8_AllVotedNoMajorityFails ==
    \A id \in Ids, caller \in Accounts, v \in Votes :
        LET voted == record_vote(PropAt(id), caller, v)
        IN (/\ Records(id, caller)
            /\ voted.vote_yes + voted.vote_no = Cardinality(council)
            /\ voted.vote_yes < MaxVotes
            /\ voted.vote_no < MaxVotes
            /\ ~(voted.vote_yes >= Required(id) /\ voted.vote_no = 0)) =>
               LET r == vote(Self, Env(caller, 0), id, v)
               IN /\ r.err = ""
                  /\ r.self = [Self EXCEPT
                                  !.proposals[id + 1] = [voted EXCEPT !.status = "Fail"]]
                  /\ r.transfers = <<Transfer(PropAt(id).proposer, bond)>>

\* A proposal that the vote of the last council member made Fail inside its
\* window, with its bond sent back and no effect applied.
C8_Witness ==
    \E id \in Ids :
        /\ last = [op |-> "vote", id |-> id]
        /\ PropAt(id).status = "Fail"
        /\ now <= PropAt(id).vote_period_end
        /\ PropAt(id).vote_yes + PropAt(id).vote_no = Cardinality(council)
        /\ PropAt(id).vote_yes > 0
        /\ effects[id + 1].transfers = <<Transfer(PropAt(id).proposer, bond)>>
        /\ effects[id + 1].kind_applied = 0

\* C9: a recorded Yes vote that leaves vote_yes >= the tier requirement,
\* vote_yes < the last tier's threshold and vote_no = 0 sets the status to
\* Delay and vote_period_end to now + grace_period; and with the council and
\* policy of that moment, a finalize call at a time > that vote_period_end
\* sets Success, sends the bond to the proposer and applies the kind effect.
C9_DelayThenSuccess ==
    \A id \in Ids :
        /\ \A caller \in Accounts :
              (/\ Records(id, caller)
               /\ PropAt(id).vote_yes + 1 >= Required(id)
               /\ PropAt(id).vote_yes + 1 < MaxVotes
               /\ PropAt(id).vote_no = 0) =>
                  LET r == vote(Self, Env(caller, 0), id, "Yes")
                  IN /\ r.err = ""
                     /\ r.self.proposals[id + 1].status = "Delay"
                     /\ r.self.proposals[id + 1].vote_period_end = now + grace_period
                     /\ r.transfers = <<>>
        /\ (/\ PropAt(id).status = "Delay"
            /\ council = effects[id + 1].delay_council
            /\ policy = effects[id + 1].delay_policy
            /\ now > PropAt(id).vote_period_end) =>
               \A caller \in Accounts :
                   LET r == finalize(Self, Env(caller, 0), id)
                   IN /\ r.err = ""
                      /\ r.self.proposals[id + 1].status = "Success"
                      /\ r.transfers[1] = Transfer(PropAt(id).proposer, bond)
                      /\ KindEffectIn(id, r)

\* A proposal that a vote moved to Delay and that a finalize call after the
\* grace period, under the same council and policy, made Success.
C9_Witness ==
    \E id \in Ids :
        /\ last = [op |-> "finalize", id |-> id]
        /\ effects[id + 1].delayed
        /\ council = effects[id + 1].delay_council
        /\ policy = effects[id + 1].delay_policy
        /\ PropAt(id).status = "Success"
        /\ PropAt(id).vote_yes < MaxVotes
        /\ now > PropAt(id).vote_period_end
        /\ effects[id + 1].bond_returned = 1
        /\ effects[id + 1].kind_applied = 1

\* C10: a vote call by a council member on a proposal in status Vote at a
\* time > vote_period_end returns, records nothing (vote_yes, vote_no and
\* votes unchanged) and leaves the proposal Success, Reject or Fail.
C10_LateVoteFinalizes ==
    \A id \in Ids, caller \in council, v \in Votes :
        (PropAt(id).status = "Vote" /\ now > PropAt(id).vote_period_end) =>
            LET r == vote(Self, Env(caller, 0), id, v)
            IN /\ r.err = ""
               /\ r.self.proposals[id + 1].status \in Terminal
               /\ r.self.proposals[id + 1].vote_yes = PropAt(id).vote_yes
               /\ r.self.proposals[id + 1].vote_no = PropAt(id).vote_no
               /\ r.self.proposals[id + 1].votes = PropAt(id).votes

\* ---------------------------------------------------------------- C11
\* What a call that ends a proposal may have written: the status of that
\* proposal, on top of the vote the call recorded, if it recorded one.
EndedAs(id, caller, v, st) ==
    {[Self EXCEPT !.proposals[id + 1].status = st],
     [Self EXCEPT !.proposals[id + 1] =
         [record_vote(PropAt(id), caller, v) EXCEPT !.status = st]]}

EndsWithout(id, caller, v, r) ==
    LET st == r.self.proposals[id + 1].status
    IN (r.err = "" /\ st \in {"Reject", "Fail"}) =>
          /\ r.self \in EndedAs(id, caller, v, st)
          /\ ~r.kind_applied
          /\ st = "Reject" => r.transfers = <<>>
          /\ st = "Fail" => r.transfers = <<Transfer(PropAt(id).proposer, bond)>>

\* C11: a proposal that ends as Reject sends nothing (its bond stays in the
\* contract) and one that ends as Fail sends exactly the bond to its
\* proposer; either way the call changes nothing of the contract but that
\* proposal, and only a proposal that ends as Success has its kind applied.
C11_OutcomeEffects ==
    /\ \A id \in Ids :
          ~is_finalized(PropAt(id).status) =>
              /\ \A caller \in Accounts :
                    EndsWithout(id, caller, "Yes", finalize(Self, Env(caller, 0), id))
              /\ \A caller \in Accounts, v \in Votes :
                    EndsWithout(id, caller, v, vote(Self, Env(caller, 0), id, v))
    /\ \A id \in Ids :
          /\ effects[id + 1].kind_applied > 0 => PropAt(id).status = "Success"
          /\ PropAt(id).status = "Reject" => effects[id + 1].transfers = <<>>
          /\ PropAt(id).status = "Fail" =>
                /\ Len(effects[id + 1].transfers) = 1
                /\ effects[id + 1].transfers[1].to = PropAt(id).proposer

\* One proposal has ended as Reject and another as Fail.
C11_Witness ==
    \E i \in Ids, j \in Ids :
        /\ PropAt(i).status = "Reject" /\ effects[i + 1].transfers = <<>>
        /\ PropAt(j).status = "Fail" /\ Len(effects[j + 1].transfers) = 1
        /\ council = FoundingCouncil /\ policy = DefaultPolicy

\* ---------------------------------------------------------------- C12
NotYet == "voting period has not expired and no majority vote yet"

StillOpen(id) ==
    /\ PropAt(id).status \in {"Vote", "Delay"}
    /\ vote_status(PropAt(id), policy, Cardinality(council), now) \in {"Vote", "Delay"}

\* C12: finalize on an open proposal whose recomputed status is still Vote
\* or Delay fails with "voting period has not expired and no majority vote
\* yet", writes nothing and sends nothing.
C12_OpenFinalizeRefused ==
    \A id \in Ids, caller \in Accounts :
        StillOpen(id) =>
            LET r == finalize(Self, Env(caller, 0), id)
            IN r.err = NotYet /\ r.self = Self /\ r.transfers = <<>>

\* A proposal waits in Delay inside its window and finalize on it is refused.
C12_Witness ==
    \E id \in Ids :
        /\ StillOpen(id)
        /\ PropAt(id).status = "Delay"
        /\ now <= PropAt(id).vote_period_end
        /\ finalize(Self, Env("acc2", 0), id).err = NotYet

Qualifying ==
    {i \in 1..Len(calc.policy) :
        calc.kind.type = "Payout" /\ calc.policy[i].max_amount > calc.kind.amount}

ApplicableTier ==
    IF Qualifying = {} THEN Len(calc.policy)
    ELSE CHOOSE i \in Qualifying : \A j \in Qualifying : i <= j

\* C14: for every non-empty policy, council size and optional amount,
\* vote_requirement returns num_votes(council size) of the first item, in
\* list order, whose max_amount is strictly above the amount, and of the last
\* item when no item is or when there is no amount.
C14_VoteRequirementTier ==
    (calc.fn = "vote_requirement" /\ calc.done) =>
        calc.result = num_votes(calc.policy[ApplicableTier], calc.num_council)

\* A payout below the first of two items that ask for different numbers of
\* votes got the number of the first.
C14_Witness ==
    /\ calc.fn = "vote_requirement" /\ calc.done
    /\ Qualifying = {1, 2}
    /\ num_votes(calc.policy[1], calc.num_council)
           # num_votes(calc.policy[2], calc.num_council)
    /\ calc.result = num_votes(calc.policy[1], calc.num_council)

\* ---------------------------------------------------------------- C15
\* C15: for every council size n >= 1 and every rule Ratio(l, r), num_votes(n)
\* is a number of votes, at most n, and equal to min(floor(n * l / r) + 1, n);
\* for a rule Number(k) it is k.
C15_NumVotesFormula ==
    (calc.fn = "num_votes" /\ calc.done /\ calc.num_council >= 1) =>
        LET rule == calc.policy[1].votes
            n == calc.num_council
        IN IF rule.tag = "Ratio"
           THEN /\ calc.result # PanicVotes
                /\ calc.result <= n
                /\ rule.b >= 1 => calc.result = Min((n * rule.a) \div rule.b + 1, n)
           ELSE calc.result = rule.a

\* The same for the rules with r >= 1, which holds.
C15_NonZeroDenominator ==
    (calc.fn = "num_votes" /\ calc.done /\ calc.policy[1].votes.b >= 1)
        => C15_NumVotesFormula

\* ---------------------------------------------------------------- C16
InDelayWindow(id) ==
    PropAt(id).status = "Delay" /\ now <= PropAt(id).vote_period_end

AsWhenDelayed(id) ==
    /\ council = effects[id + 1].delay_council
    /\ policy = effects[id + 1].delay_policy

\* C16: a proposal in Delay leaves Delay only through a finalize call at a
\* time > its vote_period_end: whatever was done on other proposals since it
\* entered Delay, every finalize on it at now <= vote_period_end fails and
\* leaves it in Delay.
C16_DelayHeldUntilExpiry ==
    \A id \in Ids, caller \in Accounts :
        InDelayWindow(id) =>
            LET r == finalize(Self, Env(caller, 0), id)
            IN r.err # "" /\ r.self.proposals[id + 1].status = "Delay"

\* C16, amended: a proposal in Delay leaves Delay only through a finalize
\* call on it, and while the council and the policy are those under which
\* it entered Delay, only at a time > its vote_period_end: every finalize on
\* it at now <= vote_period_end then fails and leaves the state as it was.
C16_DelayHeldWhileUnchanged ==
    /\ [](\A id \in Ids, caller \in Accounts :
             (InDelayWindow(id) /\ AsWhenDelayed(id)) =>
                 LET r == finalize(Self, Env(caller, 0), id)
                 IN r.err = NotYet /\ r.self = Self)
    /\ [][\A id \in Ids :
             (PropAt(id).status = "Delay" /\ proposals'[id + 1].status # "Delay") =>
                 /\ last' = [op |-> "finalize", id |-> id]
                 /\ AsWhenDelayed(id) => now > PropAt(id).vote_period_end]_vars

\* A proposal entered Delay, another proposal was submitted and voted on
\* under the same council and policy, and a finalize call after the window
\* ended the first one.
C16_Witness ==
    \E id \in Ids, other \in Ids :
        /\ effects[id + 1].delayed
        /\ AsWhenDelayed(id)
        /\ PropAt(id).status = "Success"
        /\ last = [op |-> "finalize", id |-> id]
        /\ other > id
        /\ PropAt(other).status = "Vote"
        /\ PropAt(other).vote_yes = 1

\* ---------------------------------------------------------------- C17
\* The premise of C17: no tier of the installed policy asks for more votes
\* than the last one.
C17_LastTierIsMaximum ==
    \A i \in 1..Len(policy) : num_votes(policy[i], Cardinality(council)) <= MaxVotes

SuccessMeetsRequirement(id, r) ==
    (r.err = "" /\ r.self.proposals[id + 1].status = "Success") =>
        r.self.proposals[id + 1].vote_yes >= Required(id)

\* C17: the last tier asks for the most votes of all tiers, so whenever a
\* call sets a proposal to Success, its vote_yes is at least the requirement
\* of the tier for its amount under the policy and the council size that
\* call used.
C17_SuccessMeetsRequirement ==
    \A id \in Ids :
        (~is_finalized(PropAt(id).status) /\ Len(policy) > 0 /\ MaxVotes # PanicVotes) =>
            /\ \A caller \in Accounts :
                  SuccessMeetsRequirement(id, finalize(Self, Env(caller, 0), id))
            /\ \A caller \in Accounts, v \in Votes :
                  SuccessMeetsRequirement(id, vote(Self, Env(caller, 0), id, v))

\* ---------------------------------------------------------------- C18
\* C18: a recorded vote changes vote_period_end only when it moves the
\* proposal from Vote to Delay, and then to now + grace_period; a recorded
\* vote after which the status is still Vote leaves vote_period_end as it
\* was set at submission.
C18_WindowMovesOnlyIntoDelay ==
    \A id \in Ids, caller \in Accounts, v \in Votes :
        Records(id, caller) =>
            LET r == vote(Self, Env(caller, 0), id, v)
                after == r.self.proposals[id + 1]
            IN r.err = "" =>
                  /\ after.status = "Vote" =>
                        after.vote_period_end = PropAt(id).vote_period_end
                  /\ after.vote_period_end # PropAt(id).vote_period_end =>
                        /\ after.status = "Delay"
                        /\ after.vote_period_end = now + grace_period

\* ---------------------------------------------------------------- C19
\* This step is a call that sets a proposal of one of these kinds to Success.
Succeeds(types) ==
    \E id \in Ids :
        /\ PropAt(id).kind.type \in types
        /\ PropAt(id).status # "Success"
        /\ proposals'[id + 1].status = "Success"
        /\ last'.id = id /\ last'.op \in {"vote", "finalize"}

\* C19: council, policy, bond, vote_period and purpose change only in a call
\* that sets a proposal of the corresponding kind to Success; add_proposal,
\* votes that do not finalize, and finalizations as Fail or Reject leave
\* them as they were; grace_period never changes.  Every call that returns
\* is a step, so this is a property of every step.
C19_ParametersChangeBySuccess ==
    [][
          /\ council' # council => Succeeds({"NewCouncil", "RemoveCouncil"})
          /\ policy' # policy => Succeeds({"ChangePolicy"})
          /\ bond' # bond => Succeeds({"ChangeBond"})
          /\ vote_period' # vote_period => Succeeds({"ChangeVotePeriod"})
          /\ purpose' # purpose => Succeeds({"ChangePurpose"})
          /\ grace_period' = grace_period
          ]_vars

\* A ChangeBond proposal succeeded and the bond is the new one; a
\* ChangeVotePeriod proposal failed and the voting period is the old one.
C19_Witness ==
    \E i \in Ids, j \in Ids :
        /\ PropAt(i).kind.type = "ChangeBond"
        /\ PropAt(i).status = "Success"
        /\ bond = PropAt(i).kind.bond /\ bond # InitBond
        /\ PropAt(j).kind.type = "ChangeVotePeriod"
        /\ PropAt(j).status = "Fail"
        /\ vote_period = InitVotePeriod
        /\ grace_period = InitGracePeriod

\* ---------------------------------------------------------------- C20
\* C20: with a non-empty installed policy, a finalize call by any caller on
\* a proposal in Vote or Delay at a time > its vote_period_end does not fail
\* and sets a terminal status, whatever the tally, the council size and the
\* policy.
C20_ExpiredFinalizeEnds ==
    \A id \in Ids, caller \in Accounts :
        (/\ PropAt(id).status \in {"Vote", "Delay"}
         /\ now > PropAt(id).vote_period_end
         /\ Len(policy) > 0) =>
            LET r == finalize(Self, Env(caller, 0), id)
            IN /\ r.err # NotYet
               /\ r.err = ""
               /\ r.self.proposals[id + 1].status \in Terminal

\* ---------------------------------------------------------------- C21
\* C21: whenever a proposal has ended as Success or Fail, what was sent back
\* to its proposer is the bond that was in force when it was submitted,
\* whatever happened in between, ChangeBond proposals that succeeded
\* included.
C21_RefundIsBondAtSubmission ==
    \A id \in Ids :
        PropAt(id).status \in {"Success", "Fail"} =>
            /\ Len(effects[id + 1].transfers) >= 1
            /\ effects[id + 1].transfers[1]
                  = Transfer(PropAt(id).proposer, effects[id + 1].bond_in_force)

\* The same while no ChangeBond proposal has succeeded, which holds.
C21_RefundWithoutBondChange ==
    (\A id \in Ids :
        ~(PropAt(id).kind.type = "ChangeBond" /\ PropAt(id).status = "Success"))
            => C21_RefundIsBondAtSubmission

\* ---------------------------------------------------------------- C22
\* C22: starting from a non-empty founding council and the default policy,
\* every proposal with status Success has at least one recorded Yes vote.
C22_SuccessHasYesVote ==
    \A id \in Ids : PropAt(id).status = "Success" => PropAt(id).vote_yes >= 1

====
